---- MODULE Spec2Model ----
(***************************************************************************)
(* Model of the NowCapital MCP server (src/server.py).                     *)
(*                                                                         *)
(*  - Spec        : get_monte_carlo_results, the bounded polling loop that *)
(*                  follows orchestrator redirects, driven by a caller     *)
(*                  that re-polls and by a backend that may answer         *)
(*                  anything.                                              *)
(*  - PayloadSpec : construct_payload, the pure assembly of the backend    *)
(*                  request from the tool arguments.                       *)
(*  - KeySpec     : get_api_key, the resolution of the API key from the    *)
(*                  argument, the forwarded headers and the environment.   *)
(*  - ToolSpec    : the four tools as callers see them: key and URL        *)
(*                  checks, the request that is posted, the answer of the  *)
(*                  backend and the result handed back.                    *)
(*                                                                         *)
(* Python values are encoded as follows.  An optional value (X | None, or  *)
(* the result of dict.get) is a sequence of length at most one: None is    *)
(* << >> and a present value v is <<v>>.  A dict is a record holding       *)
(* exactly the keys that are present.  A decoded JSON body is tagged with  *)
(* its Python type.                                                        *)
(***************************************************************************)
EXTENDS Integers, Sequences, FiniteSets, TLC

None == << >>

Some(v) == <<v>>

\* dict.get(k): the value when the key is present, None otherwise
Get(d, k) == IF k \in DOMAIN d THEN Some(d[k]) ELSE None

\* A string that the code takes apart (a credential, a header value) is a
\* sequence of tokens; "" is the empty sequence.  The tokens are the pieces
\* the code looks for ("Bearer ", "bearer ", a blank) and opaque rests.
\* Python truthiness of an optional string: neither None nor ""
Truthy(s) == s # None /\ s[1] # << >>

(***************************************************************************)
(* Bounds of the model                                                     *)
(***************************************************************************)
\* the number of job identifiers the backend issues; an identifier is opaque
\* to the tool, so the model numbers them
MaxJobIds == 3

JobIds == 1 .. MaxJobIds

(***************************************************************************)
(* get_monte_carlo_results                                                 *)
(***************************************************************************)
\* for i in range(15)
MaxAttempts == 15

\* time.sleep(1) after a redirect, time.sleep(2) after a still-running status
RedirectPause == 1

PollPause == 2

VARIABLES
    pc,              \* position of the tool call: idle, status, result, sleep1, sleep2, done,
                     \* and post, returned for the tools that POST; raised when
                     \* an exception left the tool function
    tool,            \* the tool that was called last ("" before the first call)
    i,               \* loop variable of `for i in range(15)`
    job_id,          \* the argument of the invocation
    current_job_id,  \* the identifier being tracked
    final_api_key,   \* the resolved key (optional string)
    api_url,         \* NOWCAPITAL_API_BASE_URL (optional string)
    ret,             \* the value returned by the invocation
    handle,          \* caller: the identifier the caller was last given
    obs,             \* observer: what the backend saw and answered in this invocation
    payload,         \* construct_payload: the assembled request
    args,            \* construct_payload: the arguments of the call
    creds            \* get_api_key: the credential sources of the call under study

pollVars == <<pc, tool, i, job_id, current_job_id, final_api_key, api_url, ret, handle, obs>>

payloadVars == <<payload, args>>

vars == <<pc, tool, i, job_id, current_job_id, final_api_key, api_url, ret, handle, obs,
          payload, args, creds>>

\* no value returned yet
NoResult == [pending |-> TRUE]

(***************************************************************************)
(* The backend: what one HTTP GET can produce.  `exc` is the exception     *)
(* raised by requests.get, raise_for_status or .json() (None when the call *)
(* and the decoding succeed), `body` the decoded JSON.                     *)
(***************************************************************************)
\* requests.get raises (no answer), raise_for_status raises (not 2xx), .json() raises
Excs == {"ConnectionError", "403 Client Error: Forbidden", "500 Server Error", "JSONDecodeError"}

Dict(d) == [type |-> "dict", d |-> d]

JsonList == [type |-> "list", d |-> [items |-> 0]]

Raised(e) == [exc |-> Some(e), body |-> JsonList]

Answered(b) == [exc |-> None, body |-> b]

StatusBodies ==
    { Dict([status |-> s]) : s \in {"SUCCESS", "PROCESSING", "PENDING", "success"} }
    \cup { Dict([status |-> "FAILURE"]),
           Dict([status |-> "FAILURE", error |-> "trial 7 diverged"]),
           Dict([state |-> "SUCCESS"]),
           JsonList }

StatusResponses == { Raised(e) : e \in Excs } \cup { Answered(b) : b \in StatusBodies }

\* the final result the backend holds for identifier id
FinalBody(id) == Dict([success_rate |-> 87, task |-> id])

ResultBodies(id) ==
    { FinalBody(id),
      Dict([status |-> "Orchestrator started"]),
      Dict([result_id |-> id, success_rate |-> 87]),
      Dict([status |-> "Completed", result_id |-> id]),
      JsonList }
    \cup { Dict([status |-> "Orchestrator started", result_id |-> n]) : n \in JobIds }

ResultResponses(id) == { Raised(e) : e \in Excs } \cup { Answered(b) : b \in ResultBodies(id) }

\* the backend's own reading of its answers
IsMarker(b) ==
    /\ b.type = "dict"
    /\ DOMAIN b.d = {"status", "result_id"}
    /\ b.d.status = "Orchestrator started"

Reports(b, s) == b.type = "dict" /\ Get(b.d, "status") = Some(s)

StillRunning(r) ==
    /\ r.exc = None
    /\ r.body.type = "dict"
    /\ ~Reports(r.body, "SUCCESS")
    /\ ~Reports(r.body, "FAILURE")

(***************************************************************************)
(* The observer: counts of what happened in the current invocation.        *)
(***************************************************************************)
NoObs ==
    [ statusChecks   |-> 0,      \* GETs of /simulations/status
      resultFetches  |-> 0,      \* GETs of /simulations/result
      running        |-> 0,      \* still-running answers
      redirects      |-> 0,      \* redirect markers answered
      slept          |-> 0,      \* seconds slept
      last           |-> "none", \* the last thing the invocation did
      lastId         |-> None,   \* the identifier of the last GET
      lastStatus     |-> None,   \* the body the status endpoint answered last
      finalAt        |-> None,   \* status checks made when a final result was answered
      finalBody      |-> None,   \* that final result
      redirectedTo   |-> None,   \* the identifier named by the last redirect marker
      strayed        |-> FALSE,  \* a GET after a redirect marker queried another identifier
      failedAt       |-> None,   \* <<HTTP calls made, seconds slept>> when a call raised
      posts          |-> 0,      \* POSTs of a request
      answer         |-> None,   \* the body the backend answered to the POST
      forbidden      |-> FALSE ] \* the backend answered HTTP 403

Calls(o) == o.statusChecks + o.resultFetches

\* raise_for_status() on an HTTP 403 answer
Forbidden(resp) == resp.exc = Some("403 Client Error: Forbidden")

\* a GET for identifier id is not for the identifier the last marker named
Stray(o, id) == o.redirectedTo # None /\ id # o.redirectedTo

(***************************************************************************)
(* The results the tool returns                                            *)
(***************************************************************************)
AuthFailed == [error |-> <<"Authentication Failed.">>]

UrlMissing == [error |-> <<"API URL missing.">>]

PollingError(e) == [error |-> <<"Polling Error: ", e>>]

\* an exception that leaves the tool function: the call has no return value
Escaped(e) == [raised |-> e]

\* the call ends by raising e
Raise(e) ==
    /\ pc' = "raised"
    /\ ret' = Escaped(e)

Success(result_body) == [status |-> "SUCCESS", result |-> result_body]

\* Variant: the error detail is rendered as text, None becoming "None"
Failure_Rendered(status_data) ==
    [ status |-> "FAILURE",
      error  |-> IF "error" \in DOMAIN status_data THEN Some(status_data.error)
                 ELSE Some("None") ]

Failure(status_data) == [status |-> "FAILURE", error |-> Get(status_data, "error")]

Processing(id) ==
    [ status  |-> "PROCESSING",
      job_id  |-> id,
      message |-> "Simulation is still running. Please poll again in a few seconds." ]

(***************************************************************************)
(* The branches of the loop body.  Each yields what the invocation does    *)
(* next: fetch the result, sleep, or return `ret`.                         *)
(***************************************************************************)
Goto(next) == [next |-> next, ret |-> NoResult]

ReturnOf(r) == [next |-> "done", ret |-> r]

\* Variant: the result is fetched for every status but FAILURE
StatusOutcome_FetchUnlessFailure(resp) ==
    IF resp.exc # None THEN ReturnOf(PollingError(resp.exc[1]))
    ELSE IF resp.body.type # "dict" THEN ReturnOf(PollingError("AttributeError"))
    ELSE IF Get(resp.body.d, "status") = Some("FAILURE") THEN ReturnOf(Failure(resp.body.d))
    ELSE Goto("result")

\* Variant: an exception of the status check is taken for "still running"
StatusOutcome_SwallowError(resp) ==
    IF resp.exc # None THEN Goto("sleep2")
    ELSE IF resp.body.type # "dict" THEN ReturnOf(PollingError("AttributeError"))
    ELSE IF Get(resp.body.d, "status") = Some("SUCCESS") THEN Goto("result")
    ELSE IF Get(resp.body.d, "status") = Some("FAILURE") THEN ReturnOf(Failure(resp.body.d))
    ELSE Goto("sleep2")

\* Variant: a missing status field is taken for a failure
StatusOutcome_MissingIsFailure(resp) ==
    IF resp.exc # None THEN ReturnOf(PollingError(resp.exc[1]))
    ELSE IF resp.body.type # "dict" THEN ReturnOf(PollingError("AttributeError"))
    ELSE IF Get(resp.body.d, "status") = Some("SUCCESS") THEN Goto("result")
    ELSE IF Get(resp.body.d, "status") \in {Some("FAILURE"), None}
         THEN ReturnOf(Failure(resp.body.d))
    ELSE Goto("sleep2")

\* status_resp.raise_for_status(); status_data = status_resp.json(); the two ifs
StatusOutcome(resp) ==
    IF resp.exc # None THEN ReturnOf(PollingError(resp.exc[1]))
    ELSE IF resp.body.type # "dict" THEN ReturnOf(PollingError("AttributeError"))
    ELSE IF Get(resp.body.d, "status") = Some("SUCCESS") THEN Goto("result")
    ELSE IF Get(resp.body.d, "status") = Some("FAILURE") THEN ReturnOf(Failure(resp.body.d))
    ELSE Goto("sleep2")

\* Variant: a result_id alone makes a redirect
IsRedirect_IdOnly(result_body) ==
    /\ result_body.type = "dict"
    /\ "result_id" \in DOMAIN result_body.d

\* isinstance(result_body, dict) and "result_id" in result_body
\*   and result_body.get("status") == "Orchestrator started"
IsRedirect(result_body) ==
    /\ result_body.type = "dict"
    /\ "result_id" \in DOMAIN result_body.d
    /\ Get(result_body.d, "status") = Some("Orchestrator started")

\* Variant: the redirect is followed without switching the identifier
Tracked_Unchanged(id, result_body) == id

\* the identifier tracked after a result body has been read
Tracked(id, result_body) ==
    IF IsRedirect(result_body) THEN result_body.d.result_id ELSE id

\* result_resp.raise_for_status(); result_body = result_resp.json(); the redirect test
ResultOutcome(resp) ==
    IF resp.exc # None THEN ReturnOf(PollingError(resp.exc[1]))
    ELSE IF IsRedirect(resp.body) THEN Goto("sleep1")
    ELSE ReturnOf(Success(resp.body))

\* Variant: range(16), one attempt too many
AfterPause_OneMore(k, id) ==
    IF k + 1 < MaxAttempts + 1
    THEN [next |-> "status", i |-> k + 1, ret |-> NoResult]
    ELSE [next |-> "done", i |-> k, ret |-> Processing(id)]

\* Variant: `while True`, the loop has no attempt budget
AfterPause_Unbounded(k, id) == [next |-> "status", i |-> k + 1, ret |-> NoResult]

\* Variant: after a pause the result is fetched without a new status check
AfterPause_ToResult(k, id) ==
    IF k + 1 < MaxAttempts
    THEN [next |-> "result", i |-> k + 1, ret |-> NoResult]
    ELSE [next |-> "done", i |-> k, ret |-> Processing(id)]

\* the end of an iteration: the next attempt, or the return after the loop
AfterPause(k, id) ==
    IF k + 1 < MaxAttempts
    THEN [next |-> "status", i |-> k + 1, ret |-> NoResult]
    ELSE [next |-> "done", i |-> k, ret |-> Processing(id)]

\* the caller keeps the identifier a result hands back
Handed(h, r) == IF "job_id" \in DOMAIN r THEN r.job_id ELSE h

(***************************************************************************)
(* get_api_key                                                             *)
(***************************************************************************)
\* key.lower() of the header names of the model
Lower(name) ==
    CASE name \in {"Authorization", "authorization", "AUTHORIZATION"} -> "authorization"
      [] name \in {"X-API-Key", "x-api-key"} -> "x-api-key"
      [] OTHER -> name

\* val.replace(old, ""): every occurrence of the token is removed
Replace(val, old) == SelectSeq(val, LAMBDA t : t # old)

RECURSIVE LStrip(_)
LStrip(val) == IF val # << >> /\ Head(val) = " " THEN LStrip(Tail(val)) ELSE val

RECURSIVE RStrip(_)
RStrip(val) ==
    IF val # << >> /\ val[Len(val)] = " " THEN RStrip(SubSeq(val, 1, Len(val) - 1)) ELSE val

\* val.strip()
Strip(val) == RStrip(LStrip(val))

\* for key, val in headers.items(): the first authorization or x-api-key header decides
RECURSIVE HeaderKey(_)
HeaderKey(headers) ==
    IF headers = << >> THEN None
    ELSE LET key == Head(headers)[1]
             val == Head(headers)[2]
         IN  IF Lower(key) = "authorization"
             THEN Some(Strip(Replace(Replace(val, "Bearer "), "bearer ")))
             ELSE IF Lower(key) = "x-api-key" THEN Some(Strip(val))
             ELSE HeaderKey(Tail(headers))

\* getattr(ctx, "headers", None); an empty mapping is falsy like None
HeadersAttr(ctx) == IF "headers" \in DOMAIN ctx THEN ctx.headers ELSE << >>

\* the headers found on the context: ctx.headers, else ctx.meta.get("headers"),
\* else ctx.request.headers.  ctx.meta is an optional dict.
CtxHeaders(ctx) ==
    LET a == HeadersAttr(ctx)
        b == IF a = << >> /\ "meta" \in DOMAIN ctx /\ ctx.meta # None
                          /\ "headers" \in DOMAIN ctx.meta[1]
             THEN ctx.meta[1].headers ELSE a
    IN  IF b = << >> /\ "request" \in DOMAIN ctx THEN ctx.request ELSE b

\* line 36: ctx.meta.get("headers") on a context whose meta attribute is None
\* raises AttributeError; get_api_key catches nothing
get_api_key_raises(ctx, user_arg) ==
    /\ ~Truthy(user_arg)
    /\ ctx # None
    /\ HeadersAttr(ctx[1]) = << >>
    /\ "meta" \in DOMAIN ctx[1]
    /\ ctx[1].meta = None

\* ctx is None or Some(context); user_arg and env_key are optional strings
get_api_key(ctx, user_arg, env_key) ==
    IF Truthy(user_arg) THEN user_arg
    ELSE IF ctx # None /\ CtxHeaders(ctx[1]) # << >> /\ HeaderKey(CtxHeaders(ctx[1])) # None
         THEN HeaderKey(CtxHeaders(ctx[1]))
         ELSE env_key

(***************************************************************************)
(* The inputs of an invocation of get_monte_carlo_results                  *)
(***************************************************************************)
UserKeys == {None, Some(<< >>), Some(<<"k-arg">>)}

EnvKeys == {None, Some(<<"k-env">>)}

ApiUrls == {None, Some(<< >>), Some(<<"https://api">>)}

PollContexts ==
    { None,
      Some([meta |-> None]),
      Some([meta |-> Some([progressToken |-> 7])]),
      Some([headers |-> << <<"Accept", <<"json">> >>,
                           <<"Authorization", <<"Bearer ", "k-env">> >> >>]) }

(***************************************************************************)
(* The actions of get_monte_carlo_results                                  *)
(***************************************************************************)
\* the invocation returns r to the caller
Return(r) ==
    /\ pc' = "done"
    /\ ret' = r
    /\ handle' = Handed(handle, r)

\* lines 951-961: resolve the key and the URL, start tracking job_id.  The
\* caller polls from the idle server and again after a poll has ended.
Invoke ==
    /\ \/ pc \in {"idle", "done"}
       \/ pc = "raised" /\ tool = "get_monte_carlo_results"
    /\ job_id' = handle
    /\ obs' = NoObs
    /\ i' = 0
    /\ tool' = "get_monte_carlo_results"
    /\ \E ctx \in PollContexts, user_api_key \in UserKeys, env_key \in EnvKeys, url \in ApiUrls :
          /\ api_url' = url
          /\ IF get_api_key_raises(ctx, user_api_key) THEN
                /\ final_api_key' = None
                /\ Raise("AttributeError")
                /\ current_job_id' = None
                /\ handle' = handle
             ELSE
                /\ final_api_key' = get_api_key(ctx, user_api_key, env_key)
                /\ IF ~Truthy(final_api_key') THEN
                      Return(AuthFailed) /\ current_job_id' = None
                   ELSE IF ~Truthy(url) THEN
                      Return(UrlMissing) /\ current_job_id' = None
                   ELSE
                      /\ current_job_id' = Some(handle)
                      /\ pc' = "status"
                      /\ ret' = NoResult
                      /\ handle' = handle
    /\ UNCHANGED <<payloadVars, creds>>

\* lines 967-989: GET the status of current_job_id and branch on it
StatusCheck ==
    /\ pc = "status"
    /\ \E resp \in StatusResponses :
          LET out == StatusOutcome(resp)
              n   == obs.statusChecks + 1
          IN  /\ obs' = [obs EXCEPT
                    !.statusChecks = n,
                    !.running      = IF StillRunning(resp) THEN @ + 1 ELSE @,
                    !.last         = "status",
                    !.lastId       = current_job_id,
                    !.lastStatus   = IF resp.exc = None THEN Some(resp.body) ELSE None,
                    !.strayed      = @ \/ Stray(obs, current_job_id),
                    !.failedAt     = IF resp.exc # None
                                     THEN Some(<<n + obs.resultFetches, obs.slept>>) ELSE @,
                    !.forbidden    = Forbidden(resp) ]
              /\ IF out.next = "done"
                 THEN Return(out.ret)
                 ELSE pc' = out.next /\ UNCHANGED <<ret, handle>>
    /\ UNCHANGED <<tool, i, job_id, current_job_id, final_api_key, api_url, payloadVars, creds>>

\* lines 972-983: GET the result of current_job_id; follow a redirect or return
ResultFetch ==
    /\ pc = "result"
    /\ \E resp \in ResultResponses(current_job_id[1]) :
          LET out == ResultOutcome(resp)
              n   == obs.resultFetches + 1
              fin == resp.exc = None /\ ~IsMarker(resp.body)
          IN  /\ obs' = [obs EXCEPT
                    !.resultFetches = n,
                    !.redirects     = IF resp.exc = None /\ IsMarker(resp.body) THEN @ + 1 ELSE @,
                    !.last          = "result",
                    !.lastId        = current_job_id,
                    !.finalAt       = IF fin THEN Some(obs.statusChecks) ELSE @,
                    !.finalBody     = IF fin THEN Some(resp.body) ELSE @,
                    !.redirectedTo  = IF resp.exc = None /\ IsMarker(resp.body)
                                      THEN Some(resp.body.d.result_id) ELSE @,
                    !.strayed       = @ \/ Stray(obs, current_job_id),
                    !.failedAt      = IF resp.exc # None
                                      THEN Some(<<obs.statusChecks + n, obs.slept>>) ELSE @,
                    !.forbidden     = Forbidden(resp) ]
              /\ current_job_id' =
                    IF resp.exc = None THEN Some(Tracked(current_job_id[1], resp.body))
                    ELSE current_job_id
              /\ IF out.next = "done"
                 THEN Return(out.ret)
                 ELSE pc' = out.next /\ UNCHANGED <<ret, handle>>
    /\ UNCHANGED <<tool, i, job_id, final_api_key, api_url, payloadVars, creds>>

\* Variant: the pause after a redirect does not use up an attempt
Pause_RedirectFree(seconds, what) ==
    LET out == IF what = "sleep1"
               THEN [next |-> "status", i |-> i, ret |-> NoResult]
               ELSE AfterPause(i, current_job_id[1])
    IN  /\ obs' = [obs EXCEPT !.slept = @ + seconds, !.last = what]
        /\ i' = out.i
        /\ IF out.next = "done"
           THEN Return(out.ret)
           ELSE pc' = out.next /\ UNCHANGED <<ret, handle>>
        /\ UNCHANGED <<tool, job_id, current_job_id, final_api_key, api_url, payloadVars, creds>>

\* the end of an iteration after time.sleep(seconds)
Pause(seconds, what) ==
    LET out == AfterPause(i, current_job_id[1])
    IN  /\ obs' = [obs EXCEPT !.slept = @ + seconds, !.last = what]
        /\ i' = out.i
        /\ IF out.next = "done"
           THEN Return(out.ret)
           ELSE pc' = out.next /\ UNCHANGED <<ret, handle>>
        /\ UNCHANGED <<tool, job_id, current_job_id, final_api_key, api_url, payloadVars, creds>>

\* lines 980-981: time.sleep(1); continue
SleepRedirect ==
    /\ pc = "sleep1"
    /\ Pause(RedirectPause, "sleep1")

\* line 989: time.sleep(2), the end of the loop body
SleepPoll ==
    /\ pc = "sleep2"
    /\ Pause(PollPause, "sleep2")

(***************************************************************************)
(* construct_payload.  Amounts are exact decimals held as integers: a      *)
(* dollar amount x is the integer x * Scale, so that the products by 0.50, *)
(* 0.20, 0.30 and 0.9 of the code are exact in the model.                  *)
(***************************************************************************)
Scale == 1000

Dollars(x) == x * Scale

\* v * (p / 100)
Pct(v, p) == (v * p) \div 100

\* the most arguments a caller sets to something else than the default
MaxSupplied == 3

\* the defaults of the tool signatures (current_age and retirement_age are required)
Defaults ==
    [ current_age              |-> 60,
      retirement_age           |-> 65,
      province                 |-> "ON",
      death_age                |-> 92,
      total_savings            |-> 0,
      savings_rrsp             |-> 0,
      savings_tfsa             |-> 0,
      savings_non_reg          |-> 0,
      non_reg_acb              |-> None,
      base_cpp_amount          |-> Dollars(17196),
      base_oas_amount          |-> Dollars(8876),
      additional_events        |-> None,
      spouse_age               |-> None,
      spouse_retirement_age    |-> None,
      spouse_total_savings     |-> 0,
      spouse_savings_rrsp      |-> 0,
      spouse_savings_tfsa      |-> 0,
      spouse_savings_non_reg   |-> 0,
      spouse_non_reg_acb       |-> None,
      spouse_base_cpp_amount   |-> 0,
      spouse_base_oas_amount   |-> Dollars(8876),
      spouse_additional_events |-> None,
      income_split             |-> None,
      expected_returns         |-> 45 * (Scale \div 10),
      cpi                      |-> 23 * (Scale \div 10),
      expense_phases           |-> None,
      enable_belt_tightening   |-> FALSE ]

Fields == DOMAIN Defaults

Event(year) == [year |-> year, type |-> "income", amount |-> Dollars(50)]

Phase(years) == [duration_years |-> years, expense_change_pct |-> -2 * Scale]

\* the values a caller supplies for argument f, numbered from 1
Supplied(f) ==
    CASE f = "current_age"     -> <<55>>
      [] f = "retirement_age"  -> <<62>>
      [] f = "province"        -> <<"BC">>
      [] f = "death_age"       -> <<85>>
      [] f \in {"total_savings", "spouse_total_savings"} -> <<Dollars(500), Dollars(-500)>>
      [] f \in {"savings_rrsp", "spouse_savings_rrsp"}   -> <<Dollars(300)>>
      [] f \in {"savings_tfsa", "spouse_savings_tfsa"}   -> <<Dollars(200), Dollars(-300)>>
      [] f \in {"savings_non_reg", "spouse_savings_non_reg"} -> <<Dollars(400)>>
      [] f \in {"non_reg_acb", "spouse_non_reg_acb"} ->
            <<Some(0), Some(Dollars(-50)), Some(Dollars(100))>>
      [] f \in {"base_cpp_amount", "base_oas_amount"} -> <<Dollars(9000)>>
      [] f = "spouse_base_cpp_amount" -> <<Dollars(9000)>>
      [] f = "spouse_base_oas_amount" -> <<Dollars(5000), 0>>
      [] f = "spouse_age"             -> <<Some(58), Some(0)>>
      [] f = "spouse_retirement_age"  -> <<Some(60), Some(0)>>
      [] f = "income_split"           -> <<Some(TRUE), Some(FALSE)>>
      [] f = "expected_returns"       -> <<60 * (Scale \div 10)>>
      [] f = "cpi"                    -> <<30 * (Scale \div 10)>>
      [] f \in {"additional_events", "spouse_additional_events"} ->
            <<Some(<<Event(2030), Event(2028)>>), Some(<< >>)>>
      [] f = "expense_phases" -> <<Some(<<Phase(10), Phase(5)>>), Some(<< >>)>>
      [] f = "enable_belt_tightening" -> <<TRUE>>

MaxAlternatives ==
    CHOOSE n \in { Len(Supplied(f)) : f \in Fields } : \A f \in Fields : Len(Supplied(f)) <= n

\* the sets of at most k arguments
RECURSIVE SetsUpTo(_)
SetsUpTo(k) ==
    IF k = 0 THEN {{}}
    ELSE LET smaller == SetsUpTo(k - 1)
         IN  smaller \cup { T \cup {f} : T \in smaller, f \in Fields }

SuppliedSets == SetsUpTo(MaxSupplied)

\* the argument records: the defaults with the arguments in S set as c chooses
Arguments(S, c) == [f \in Fields |-> IF f \in S THEN Supplied(f)[c[f]] ELSE Defaults[f]]

\* Variant: the shares of the tax-free and the non-registered account are swapped
distribute_savings_Swapped(total, r, t, n) ==
    IF (r + t + n) = 0 /\ total > 0
    THEN <<Pct(total, 50), Pct(total, 30), Pct(total, 20)>>
    ELSE <<r, t, n>>

\* Variant: a positive total is split on top of the itemized amounts
distribute_savings_OnTop(total, r, t, n) ==
    IF total > 0
    THEN <<r + Pct(total, 50), t + Pct(total, 20), n + Pct(total, 30)>>
    ELSE <<r, t, n>>

\* lines 149-153
distribute_savings(total, r, t, n) ==
    IF (r + t + n) = 0 /\ total > 0
    THEN <<Pct(total, 50), Pct(total, 20), Pct(total, 30)>>
    ELSE <<r, t, n>>

\* Variant: `if non_reg_acb:`, an explicit 0 is taken for "not supplied"
cost_basis_Truthy(acb, non_reg) ==
    IF acb # None /\ acb[1] # 0 THEN acb[1]
    ELSE IF non_reg > 0 THEN Pct(non_reg, 90) ELSE 0

\* lines 159-162 and 171-174
cost_basis(acb, non_reg) ==
    IF acb # None THEN acb[1]
    ELSE IF non_reg > 0 THEN Pct(non_reg, 90) ELSE 0

\* Variant: `if spouse_age`, the truthiness of the spouse age
is_couple_Truthy(a) == a.spouse_age # None /\ a.spouse_age[1] # 0

\* line 165
is_couple(a) == a.spouse_age # None

\* line 167: falls back to retirement_age when the spouse's is None or 0
p2_retire(a) ==
    IF a.spouse_retirement_age # None /\ a.spouse_retirement_age[1] # 0
    THEN a.spouse_retirement_age[1]
    ELSE a.retirement_age

\* Variant: `income_split or is_couple`, an explicit False is overridden for a couple
final_income_split_Or(a) ==
    (a.income_split # None /\ a.income_split[1]) \/ is_couple(a)

\* line 177
final_income_split(a) ==
    IF a.income_split # None THEN a.income_split[1] ELSE is_couple(a)

\* Variant: the spouse's benefit amounts are passed through in both modes
p2_benefit_PassedThrough(a, amount) == amount

\* lines 235-236
p2_benefit(a, amount) == IF is_couple(a) THEN amount ELSE 0

\* Variant: `if expense_phases:`, a supplied empty list is dropped
WithOptional_Truthy(d, k, v) ==
    IF v # None /\ v[1] # << >>
    THEN [x \in DOMAIN d \cup {k} |-> IF x = k THEN v[1] ELSE d[x]]
    ELSE d

\* a dict with key k set when v is not None (lines 282-287)
WithOptional(d, k, v) ==
    IF v # None
    THEN [x \in DOMAIN d \cup {k} |-> IF x = k THEN v[1] ELSE d[x]]
    ELSE d

\* Variant: the default cost basis is taken from the itemized argument,
\* before the savings are split
person1_ui_BasisBeforeSplit(a) ==
    LET s == distribute_savings(a.total_savings, a.savings_rrsp, a.savings_tfsa,
                                a.savings_non_reg)
    IN  WithOptional(
            [ current_age     |-> a.current_age,
              retirement_age  |-> a.retirement_age,
              province        |-> a.province,
              death_age       |-> a.death_age,
              rrsp            |-> s[1],
              tfsa            |-> s[2],
              non_registered  |-> s[3],
              cost_basis      |-> cost_basis(a.non_reg_acb, a.savings_non_reg),
              base_cpp_amount |-> a.base_cpp_amount,
              base_oas_amount |-> a.base_oas_amount ],
            "additional_events", a.additional_events)

person1_ui(a) ==
    LET s == distribute_savings(a.total_savings, a.savings_rrsp, a.savings_tfsa,
                                a.savings_non_reg)
    IN  WithOptional(
            [ current_age     |-> a.current_age,
              retirement_age  |-> a.retirement_age,
              province        |-> a.province,
              death_age       |-> a.death_age,
              rrsp            |-> s[1],
              tfsa            |-> s[2],
              non_registered  |-> s[3],
              cost_basis      |-> cost_basis(a.non_reg_acb, s[3]),
              base_cpp_amount |-> a.base_cpp_amount,
              base_oas_amount |-> a.base_oas_amount ],
            "additional_events", a.additional_events)

person2_ui(a) ==
    LET s == distribute_savings(a.spouse_total_savings, a.spouse_savings_rrsp,
                                a.spouse_savings_tfsa, a.spouse_savings_non_reg)
    IN  WithOptional(
            [ current_age     |-> IF is_couple(a) THEN a.spouse_age[1] ELSE a.current_age,
              retirement_age  |-> p2_retire(a),
              rrsp            |-> s[1],
              tfsa            |-> s[2],
              non_registered  |-> s[3],
              cost_basis      |-> cost_basis(a.spouse_non_reg_acb, s[3]),
              base_cpp_amount |-> p2_benefit(a, a.spouse_base_cpp_amount),
              base_oas_amount |-> p2_benefit(a, a.spouse_base_oas_amount) ],
            "additional_events", a.spouse_additional_events)

inputs(a) ==
    WithOptional(
        [ expected_returns    |-> a.expected_returns,
          cpi                 |-> a.cpi,
          province            |-> a.province,
          individual          |-> ~is_couple(a),
          income_split        |-> final_income_split(a),
          rrif_min_withdrawal |-> FALSE ],
        "expense_phases", a.expense_phases)

WithdrawalOrder == [weights |-> <<[type |-> "fallback", order |-> <<"rrsp", "non_registered", "tfsa">>]>>]

\* lines 179-289; enable_belt_tightening is accepted and not used
construct_payload(a) ==
    [ person1_ui          |-> person1_ui(a),
      person2_ui          |-> person2_ui(a),
      inputs              |-> inputs(a),
      withdrawal_strategy |-> [person1 |-> WithdrawalOrder, person2 |-> WithdrawalOrder] ]

(***************************************************************************)
(* The actions of construct_payload                                        *)
(***************************************************************************)
Construct ==
    /\ payload = NoResult
    /\ payload' = construct_payload(args)
    /\ UNCHANGED <<args, pollVars, creds>>

(***************************************************************************)
(* The tools that POST one request: calculate_sustainable_spend,           *)
(* calculate_detailed_spend_plan and start_monte_carlo_simulation          *)
(***************************************************************************)
Tools ==
    {"calculate_sustainable_spend", "calculate_detailed_spend_plan",
     "start_monte_carlo_simulation"}

\* the number of arguments a caller of a tool sets
MaxToolSupplied == 1

ToolArguments ==
    UNION { { Arguments(S, c) :
                c \in { d \in [S -> 1 .. MaxAlternatives] :
                          \A f \in S : d[f] <= Len(Supplied(f)) } } :
            S \in SetsUpTo(MaxToolSupplied) }

\* the arguments that only start_monte_carlo_simulation takes
SimulationArguments ==
    [ target_monthly_spend   |-> Dollars(5),
      num_trials             |-> 1000,
      return_std_dev         |-> 9 * (Scale \div 100),
      cpi_std_dev            |-> 12 * (Scale \div 1000),
      return_cpi_correlation |-> -5 * (Scale \div 100) ]

\* the result for a missing key and for a missing URL, as each tool words it
AuthFailedOf(t) ==
    IF t = "calculate_sustainable_spend"
    THEN [error |-> <<"Authentication Failed.",
                      " Please provide your 'user_api_key' as an argument.">>]
    ELSE AuthFailed

UrlMissingOf(t) ==
    IF t = "calculate_sustainable_spend"
    THEN [error |-> <<"API URL missing.",
                      " Please set the NOWCAPITAL_API_BASE_URL environment variable.">>]
    ELSE UrlMissing

RequestFailed(e) == [error |-> <<"Request Failed: ", e>>]

\* Variant: the percentage is placed in the request as it is
Hundredth_Kept(x) == x

\* x / 100; the rates of the model are multiples of a tenth of a percent,
\* which the division leaves exact
Hundredth(x) == x \div 100

\* lines 917-922: the simulation settings written over payload["inputs"]
SimulationInputs(inp, a) ==
    LET m == SimulationArguments
    IN  [ x \in DOMAIN inp \cup {"num_trials", "return_std_dev", "cpi_std_dev",
                                 "return_cpi_correlation"} |->
            CASE x = "num_trials"             -> m.num_trials
              [] x = "expected_returns"       -> Hundredth(a.expected_returns)
              [] x = "cpi"                    -> Hundredth(a.cpi)
              [] x = "return_std_dev"         -> m.return_std_dev
              [] x = "cpi_std_dev"            -> m.cpi_std_dev
              [] x = "return_cpi_correlation" -> m.return_cpi_correlation
              [] OTHER                        -> inp[x] ]

\* the JSON body tool t posts for the arguments a
Request(t, a) ==
    LET p == construct_payload(a)
    IN  IF t = "start_monte_carlo_simulation"
        THEN [ x \in DOMAIN p \cup {"target_monthly_spend"} |->
                 CASE x = "target_monthly_spend" -> SimulationArguments.target_monthly_spend
                   [] x = "inputs"               -> SimulationInputs(p.inputs, a)
                   [] OTHER                      -> p[x] ]
        ELSE p

\* one year of a plan: an ordered dict, held as a sequence of <<key, value>>
YearRow(age) == << <<"age", age>>, <<"spend", Dollars(4)>> >>

\* what the backend may answer to a POST; it is not bound to the endpoint
PostBodies ==
    { Dict([ max_spend_monthly          |-> Dollars(4),
             average_real_monthly_spend |-> Dollars(3),
             person1_yearly_data        |-> <<YearRow(60), YearRow(61)>>,
             person2_yearly_data        |-> << >> ]),
      Dict([detail |-> "queued"]),
      JsonList }
    \cup { Dict([task_id |-> n]) : n \in JobIds }

PostResponses == { Raised(e) : e \in Excs } \cup { Answered(b) : b \in PostBodies }

\* lines 291-299: "" for an empty list, else the keys of the first row as
\* the header line and one line of values per row (the rows of the model
\* all have the keys of the first)
json_to_csv(data_list) ==
    IF data_list = << >> THEN << >>
    ELSE << [k \in 1 .. Len(data_list[1]) |-> data_list[1][k][1]] >>
         \o [r \in 1 .. Len(data_list) |->
                [k \in 1 .. Len(data_list[r]) |-> data_list[r][k][2]]]

\* data.get(k, default)
GetOr(d, k, default) == IF k \in DOMAIN d THEN d[k] ELSE default

\* Variant: the identifier is read from the key the tool itself answers with
Started_OwnKey(data) ==
    [ job_id  |-> Get(data, "job_id"),
      status  |-> "PENDING",
      message |-> "Simulation started. This process typically takes between 5 and 15 seconds. Use check_simulation_status to poll." ]

\* lines 928-932: the result of a submitted simulation
Started(data) ==
    [ job_id  |-> Get(data, "task_id"),
      status  |-> "PENDING",
      message |-> "Simulation started. This process typically takes between 5 and 15 seconds. Use check_simulation_status to poll." ]

\* the try block of tool t: raise_for_status(), .json(), the result dict;
\* `except Exception` turns whatever was raised into "Request Failed"
PostOutcome(t, resp, a) ==
    IF resp.exc # None THEN RequestFailed(resp.exc[1])
    ELSE IF resp.body.type # "dict" THEN RequestFailed("AttributeError")
    ELSE LET data == resp.body.d
         IN  CASE t = "calculate_sustainable_spend" ->
                    LET max_monthly == GetOr(data, "max_spend_monthly", 0)
                    IN  [ max_monthly_spend |-> max_monthly,
                          currency          |-> "CAD",
                          narrative         |->
                              <<"You can sustainably spend approximately **$", max_monthly,
                                " per month** until age ", a.death_age, ".">> ]
               [] t = "calculate_detailed_spend_plan" ->
                    [ max_spend_monthly          |-> Get(data, "max_spend_monthly"),
                      average_real_monthly_spend |-> Get(data, "average_real_monthly_spend"),
                      person1_yearly_data_csv    |->
                          json_to_csv(GetOr(data, "person1_yearly_data", << >>)),
                      person2_yearly_data_csv    |->
                          json_to_csv(GetOr(data, "person2_yearly_data", << >>)) ]
               [] t = "start_monte_carlo_simulation" -> Started(data)

\* the call of a tool that POSTs returns r to the caller
Finish(r) ==
    /\ pc' = "returned"
    /\ ret' = r

\* the tool function up to its try block: key, URL, the request.  A call
\* reads nothing that an earlier call left behind, so every call is taken
\* from the idle server.
CallTool ==
    /\ pc = "idle"
    /\ obs' = NoObs
    /\ \E t \in Tools, a \in ToolArguments, ctx \in PollContexts,
          user_api_key \in UserKeys, env_key \in EnvKeys, url \in ApiUrls :
          /\ tool' = t
          /\ args' = a
          /\ api_url' = url
          /\ IF get_api_key_raises(ctx, user_api_key) THEN
                /\ final_api_key' = None
                /\ payload' = NoResult
                /\ Raise("AttributeError")
             ELSE
                /\ final_api_key' = get_api_key(ctx, user_api_key, env_key)
                /\ IF ~Truthy(final_api_key') THEN
                      payload' = NoResult /\ Finish(AuthFailedOf(t))
                   ELSE IF ~Truthy(url) THEN
                      payload' = NoResult /\ Finish(UrlMissingOf(t))
                   ELSE
                      /\ payload' = Request(t, a)
                      /\ pc' = "post"
                      /\ ret' = NoResult
    /\ UNCHANGED <<i, job_id, current_job_id, handle, creds>>

\* Variant: a POST that raised is sent again
AfterPost_Retry(resp) == IF resp.exc # None THEN "post" ELSE "returned"

\* where the call is after its POST: both branches of the try block return
AfterPost(resp) == "returned"

\* the try block: requests.post with the request, then the result
Post ==
    /\ pc = "post"
    /\ \E resp \in PostResponses :
          /\ obs' = [obs EXCEPT !.posts = @ + 1, !.forbidden = Forbidden(resp),
                                !.failedAt = IF resp.exc # None THEN Some(<<obs.posts + 1, 0>>)
                                             ELSE @,
                                !.answer = IF resp.exc = None THEN Some(resp.body) ELSE None]
          /\ IF AfterPost(resp) = "returned"
             THEN Finish(PostOutcome(tool, resp, args))
             ELSE pc' = AfterPost(resp) /\ ret' = ret
    /\ UNCHANGED <<tool, i, job_id, current_job_id, final_api_key, api_url, handle,
                   payload, args, creds>>


PollIdle ==
    /\ pc = "idle"
    /\ tool = ""
    /\ i = 0
    /\ job_id = 1
    /\ handle = job_id
    /\ current_job_id = None
    /\ final_api_key = None
    /\ api_url = None
    /\ ret = NoResult
    /\ obs = NoObs

PayloadInit ==
    /\ PollIdle
    /\ creds = NoResult
    /\ payload = NoResult
    /\ \E S \in SuppliedSets :
          /\ \E c \in [S -> 1 .. MaxAlternatives] :
                /\ \A f \in S : c[f] <= Len(Supplied(f))
                /\ args = Arguments(S, c)

PayloadNext == Construct

PayloadSpec == PayloadInit /\ [][PayloadNext]_vars

Init ==
    /\ pc = "idle"
    /\ tool = ""
    /\ i = 0
    /\ job_id \in JobIds
    /\ handle = job_id
    /\ current_job_id = None
    /\ final_api_key = None
    /\ api_url = None
    /\ ret = NoResult
    /\ obs = NoObs
    /\ payload = NoResult
    /\ args = NoResult
    /\ creds = NoResult

Next ==
    \/ Invoke
    \/ StatusCheck
    \/ ResultFetch
    \/ SleepRedirect
    \/ SleepPoll

Spec == Init /\ [][Next]_vars

\* Every GET carries timeout=5 and every sleep is finite, so a started
\* invocation always takes its next step.
FairSpec ==
    /\ Spec
    /\ WF_vars(StatusCheck)
    /\ WF_vars(ResultFetch)
    /\ WF_vars(SleepRedirect)
    /\ WF_vars(SleepPoll)

(***************************************************************************)
(* get_api_key on its own: the credential sources are drawn at the start   *)
(* and one step resolves them                                              *)
(***************************************************************************)
\* the number of headers a context forwards
MaxHeaders == 2

HeaderNames == {"Authorization", "x-api-key", "Accept"}

HeaderValues == { << >>, <<"Bearer ">>, <<"Bearer ", "k-hdr">>, <<"k-hdr", " ">> }

\* the header mappings of at most n entries, in iteration order
RECURSIVE HeadersUpTo(_)
HeadersUpTo(n) ==
    IF n = 0 THEN { << >> }
    ELSE LET shorter == HeadersUpTo(n - 1)
         IN  shorter \cup { Append(h, <<k, v>>) : h \in shorter, k \in HeaderNames,
                                                  v \in HeaderValues }

\* the shapes of context get_api_key looks into
KeyContexts ==
    { None, Some([meta |-> None]) }
    \cup { Some([headers |-> h]) : h \in HeadersUpTo(MaxHeaders) }
    \cup { Some([meta |-> Some([headers |-> h])]) : h \in HeadersUpTo(MaxHeaders) }
    \cup { Some([request |-> h]) : h \in HeadersUpTo(MaxHeaders) }

KeyInit ==
    /\ PollIdle
    /\ payload = NoResult
    /\ args = NoResult
    /\ creds \in [ctx : KeyContexts, user_arg : UserKeys, env_key : EnvKeys]

\* one call of get_api_key(ctx, user_arg) with NOWCAPITAL_API_KEY = env_key
Resolve ==
    /\ pc = "idle"
    /\ IF get_api_key_raises(creds.ctx, creds.user_arg)
       THEN final_api_key' = None /\ Raise("AttributeError")
       ELSE /\ final_api_key' = get_api_key(creds.ctx, creds.user_arg, creds.env_key)
            /\ pc' = "resolved"
            /\ ret' = ret
    /\ UNCHANGED <<tool, i, job_id, current_job_id, api_url, handle, obs, payload, args,
                   creds>>

KeyNext == Resolve

KeySpec == KeyInit /\ [][KeyNext]_vars

\* The four tools: a server that answers calls of the polling tool, or
\* calls of the tools that POST.
ToolNext ==
    \/ Next
    \/ CallTool
    \/ Post

ToolSpec == Init /\ [][ToolNext]_vars

(***************************************************************************)
(* Properties of get_monte_carlo_results                                   *)
(***************************************************************************)
Returned == pc = "done"

HasStatus(r, s) == "status" \in DOMAIN r /\ r.status = s

\* C1: when the backend answers N < 15 status checks with a still-running
\* status and the next one with SUCCESS, the first result fetch comes after
\* exactly N + 1 status checks; and once a final (non-redirect) result has
\* been fetched the invocation is over, with no status check after it.
C1_StatusChecksBeforeFetch ==
    /\ (obs.last = "result" /\ obs.resultFetches = 1) =>
          /\ obs.running < MaxAttempts
          /\ obs.statusChecks = obs.running + 1
    /\ obs.finalAt # None =>
          /\ Returned
          /\ obs.last = "result"
          /\ obs.statusChecks = obs.finalAt[1]

\* C1 witness: three still-running answers, SUCCESS, and a final result at the first fetch
C1_Witness ==
    /\ obs.running = 3
    /\ obs.resultFetches = 1
    /\ obs.finalAt = Some(4)
    /\ HasStatus(ret, "SUCCESS")

\* C2: after a redirect marker naming B every status check and every result
\* fetch is for B (so the identifier the marker led away from is not queried
\* again), and a SUCCESS result carries the final, non-redirect body that
\* was fetched last, for B.
C2_RedirectFollowed ==
    /\ ~obs.strayed
    /\ (Returned /\ HasStatus(ret, "SUCCESS")) =>
          /\ obs.finalBody = Some(ret.result)
          /\ ~IsMarker(ret.result)
          /\ obs.lastId = current_job_id
          /\ obs.redirectedTo # None => obs.lastId = obs.redirectedTo

\* C2 witness: one redirect from the input identifier to another one, whose
\* final result is returned
C2_Witness ==
    /\ Returned
    /\ obs.redirects = 1
    /\ obs.redirectedTo # None
    /\ obs.redirectedTo # Some(job_id)
    /\ obs.statusChecks >= 3
    /\ ret = Success(FinalBody(obs.redirectedTo[1]))

\* C3: when every status check is answered still-running, the invocation
\* makes exactly 15 status checks and returns PROCESSING with the input
\* identifier; and whenever PROCESSING is returned, 15 status checks were
\* made and job_id is the identifier tracked at that moment.
C3_BudgetExhaustion ==
    /\ (Returned /\ obs.statusChecks >= 1 /\ obs.running = obs.statusChecks) =>
          /\ obs.statusChecks = MaxAttempts
          /\ ret = Processing(job_id)
    /\ (Returned /\ HasStatus(ret, "PROCESSING")) =>
          /\ obs.statusChecks = MaxAttempts
          /\ ret = Processing(current_job_id[1])

\* C3 witness: fifteen still-running answers, PROCESSING for the input identifier
C3_Witness ==
    /\ Returned
    /\ obs.running = MaxAttempts
    /\ ret = Processing(job_id)

\* C4: once an invocation has followed a redirect, every way it ends without
\* a SUCCESS or FAILURE status hands the redirected identifier back, so that
\* the caller re-polls with it.
C4_RedirectHandedBack ==
    (Returned /\ obs.redirects >= 1 /\ ~HasStatus(ret, "SUCCESS") /\ ~HasStatus(ret, "FAILURE")) =>
        handle = current_job_id[1]

\* C5: an exception raised by a status check or a result fetch (no answer,
\* or an answer that is not 2xx) ends the invocation at once with an error
\* result: no HTTP call and no sleep follows, and the result has no status.
C5_ExceptionAborts ==
    obs.failedAt # None =>
        /\ Returned
        /\ "error" \in DOMAIN ret
        /\ "status" \notin DOMAIN ret
        /\ Calls(obs) = obs.failedAt[1][1]
        /\ obs.slept = obs.failedAt[1][2]

\* C5 witness: a result fetch is refused with 403 after earlier attempts and a redirect
C5_Witness ==
    /\ obs.failedAt # None
    /\ obs.last = "result"
    /\ obs.redirects >= 1
    /\ obs.running >= 1
    /\ ret = PollingError("403 Client Error: Forbidden")

\* C6: when a status check answers FAILURE, the invocation returns status
\* FAILURE with the error detail of that answer unchanged, and that status
\* check is the last thing it did (no result fetch, no further status check).
C6_FailurePassedThrough ==
    (obs.lastStatus # None /\ Reports(obs.lastStatus[1], "FAILURE")) =>
        /\ Returned
        /\ obs.last = "status"
        /\ ret = [status |-> "FAILURE", error |-> Get(obs.lastStatus[1].d, "error")]

\* C6 witness: FAILURE with an error detail, after a redirect
C6_Witness ==
    /\ Returned
    /\ obs.redirects >= 1
    /\ obs.lastStatus = Some(Dict([status |-> "FAILURE", error |-> "trial 7 diverged"]))
    /\ ret.error = Some("trial 7 diverged")

\* C7: an answer whose status is neither SUCCESS nor FAILURE (a missing
\* status included) leads neither to a result fetch nor to a return but to
\* the 2-second pause; every attempt that is started follows one pause per
\* earlier attempt (2 seconds for a still-running answer, 1 second for a
\* redirect), each of which consumed exactly one attempt.
C7_OtherStatusIsRunning ==
    /\ (obs.last = "status" /\ obs.lastStatus # None /\ obs.lastStatus[1].type = "dict"
          /\ ~Reports(obs.lastStatus[1], "SUCCESS") /\ ~Reports(obs.lastStatus[1], "FAILURE")) =>
          /\ pc = "sleep2"
          /\ ret = NoResult
    /\ (pc = "status" \/ (Returned /\ HasStatus(ret, "PROCESSING"))) =>
          /\ obs.running + obs.redirects = (IF Returned THEN i + 1 ELSE i)
          /\ obs.slept = PollPause * obs.running + RedirectPause * obs.redirects

\* C7 witness: the 15th attempt is answered without a status field and pauses
C7_Witness ==
    /\ pc = "sleep2"
    /\ i = MaxAttempts - 1
    /\ obs.lastStatus = Some(Dict([state |-> "SUCCESS"]))

\* C8: an invocation makes at most 15 status checks and at most 15 result
\* fetches, ends with a result, and every started invocation ends, whatever
\* the backend answers.
C8_InvocationBounded ==
    /\ [](/\ obs.statusChecks <= MaxAttempts
          /\ obs.resultFetches <= MaxAttempts
          /\ Returned => (\/ "error" \in DOMAIN ret /\ "status" \notin DOMAIN ret
                          \/ HasStatus(ret, "SUCCESS")
                          \/ HasStatus(ret, "FAILURE")
                          \/ ret = Processing(current_job_id[1])))
    /\ (pc \in {"status", "result", "sleep1", "sleep2"}) ~> Returned

\* C8 witness: the backend redirects at every result fetch, fifteen times
C8_Witness ==
    /\ Returned
    /\ obs.redirects = MaxAttempts
    /\ HasStatus(ret, "PROCESSING")

(***************************************************************************)
(* Properties of construct_payload                                         *)
(***************************************************************************)
Assembled == "inputs" \in DOMAIN payload

\* C9: the assembled request is in couple mode (inputs.individual false) if
\* and only if a spouse age was supplied, whatever other spouse arguments
\* were.
C9_CoupleIffSpouseAge ==
    Assembled => (payload.inputs.individual = FALSE <=> args.spouse_age # None)

\* C9 witness: spouse savings without a spouse age, an individual request
C9_Witness ==
    /\ Assembled
    /\ args.spouse_age = None
    /\ args.spouse_total_savings > 0
    /\ payload.inputs.individual = TRUE

\* C10: without a spouse age person 2's base CPP and OAS amounts are zero
\* whatever was supplied; with a spouse age they are the supplied amounts.
C10_SpouseBenefits ==
    Assembled =>
        /\ payload.person2_ui.base_cpp_amount =
              (IF args.spouse_age = None THEN 0 ELSE args.spouse_base_cpp_amount)
        /\ payload.person2_ui.base_oas_amount =
              (IF args.spouse_age = None THEN 0 ELSE args.spouse_base_oas_amount)

\* C10 witness: a spouse CPP amount without a spouse age is zeroed
C10_Witness ==
    /\ Assembled
    /\ args.spouse_age = None
    /\ args.spouse_base_cpp_amount > 0
    /\ payload.person2_ui.base_cpp_amount = 0
    /\ payload.person2_ui.base_oas_amount = 0

\* the arguments of person p (1: the user, 2: the spouse) and what the request holds
TotalOf(a, p) == IF p = 1 THEN a.total_savings ELSE a.spouse_total_savings

ItemizedOf(a, p) ==
    IF p = 1 THEN <<a.savings_rrsp, a.savings_tfsa, a.savings_non_reg>>
    ELSE <<a.spouse_savings_rrsp, a.spouse_savings_tfsa, a.spouse_savings_non_reg>>

AcbOf(a, p) == IF p = 1 THEN a.non_reg_acb ELSE a.spouse_non_reg_acb

PersonOf(pl, p) == IF p = 1 THEN pl.person1_ui ELSE pl.person2_ui

ResolvedOf(pl, p) ==
    <<PersonOf(pl, p).rrsp, PersonOf(pl, p).tfsa, PersonOf(pl, p).non_registered>>

SumOf(t) == t[1] + t[2] + t[3]

C12_ItemizedPassThrough ==
    Assembled =>
        \A p \in {1, 2} :
            SumOf(ItemizedOf(args, p)) # 0 => ResolvedOf(payload, p) = ItemizedOf(args, p)

\* C12 witness: an itemized amount together with a positive total
C12_Witness ==
    /\ Assembled
    /\ args.total_savings = Dollars(500)
    /\ args.savings_rrsp = Dollars(300)
    /\ ResolvedOf(payload, 1) = <<Dollars(300), 0, 0>>

\* C13: for each person, the split is applied only when all three itemized
\* amounts are zero and the total is positive; as soon as one itemized
\* amount is not zero, the itemized amounts are the resolved amounts.
C13_SplitOnlyWhenAllZero ==
    Assembled =>
        \A p \in {1, 2} :
            ItemizedOf(args, p) # <<0, 0, 0>> => ResolvedOf(payload, p) = ItemizedOf(args, p)

SectionOf(pl, k) ==
    CASE k = "additional_events"        -> pl.person1_ui
      [] k = "spouse_additional_events" -> pl.person2_ui
      [] k = "expense_phases"           -> pl.inputs

KeyOf(k) == IF k = "expense_phases" THEN "expense_phases" ELSE "additional_events"

\* C15: each optional section is a key of the request if and only if the
\* caller supplied it, and then its value is the supplied list, elements and
\* order unchanged; a section that was not supplied is no key at all.
C15_OptionalSections ==
    Assembled =>
        \A k \in {"additional_events", "spouse_additional_events", "expense_phases"} :
            /\ KeyOf(k) \in DOMAIN SectionOf(payload, k) <=> args[k] # None
            /\ args[k] # None => SectionOf(payload, k)[KeyOf(k)] = args[k][1]

\* C15 witness: two expense phases in order, an empty event list, no spouse events
C15_Witness ==
    /\ Assembled
    /\ args.expense_phases = Some(<<Phase(10), Phase(5)>>)
    /\ payload.inputs.expense_phases = <<Phase(10), Phase(5)>>
    /\ args.additional_events = Some(<< >>)
    /\ payload.person1_ui.additional_events = << >>
    /\ "additional_events" \notin DOMAIN payload.person2_ui

\* C16: inputs.income_split is the caller's explicit choice when there is
\* one, in either mode; without one it is true exactly in couple mode.
C16_IncomeSplit ==
    Assembled =>
        payload.inputs.income_split =
            (IF args.income_split # None THEN args.income_split[1]
             ELSE ~payload.inputs.individual)

\* C16 witness: a couple that switches income splitting off
C16_Witness ==
    /\ Assembled
    /\ args.spouse_age # None
    /\ args.income_split = Some(FALSE)
    /\ payload.inputs.income_split = FALSE

(***************************************************************************)
(* Properties of the tools                                                 *)
(***************************************************************************)
\* a call of a tool has ended: returned, or an exception left the function
Ended == pc \in {"done", "returned", "raised"}

\* the HTTP calls of the call: GETs of the polling tool, POSTs of the others
HttpCalls == Calls(obs) + obs.posts

\* C17: the request posted by start_monte_carlo_simulation carries
\* expected_returns and cpi as the percentages of the call divided by 100;
\* the requests posted by the two other tools carry the percentages as given.
C17_RatesAsFractions ==
    obs.posts >= 1 =>
        IF tool = "start_monte_carlo_simulation"
        THEN /\ 100 * payload.inputs.expected_returns = args.expected_returns
             /\ 100 * payload.inputs.cpi = args.cpi
        ELSE /\ payload.inputs.expected_returns = args.expected_returns
             /\ payload.inputs.cpi = args.cpi

\* C17 witness: a simulation posted with a supplied return of 6 percent and
\* the default inflation of 2.3 percent
C17_Witness ==
    /\ tool = "start_monte_carlo_simulation"
    /\ obs.posts = 1
    /\ args.expected_returns = Supplied("expected_returns")[1]
    /\ args.expected_returns > 0
    /\ 100 * payload.inputs.expected_returns = args.expected_returns
    /\ 100 * payload.inputs.cpi = Defaults.cpi

\* C18: in every tool, when the backend answers HTTP 403 the call ends with
\* an error result of the authentication class, the class of the result for
\* a missing key, and not of the class of any other failed call.
C18_ForbiddenIsAuthentication ==
    (Ended /\ obs.forbidden) =>
        /\ "error" \in DOMAIN ret
        /\ ret.error[1] = "Authentication Failed."

\* C19: in each of the four tools, a call for which no key was resolved or
\* no base URL is configured ends with a structured error result and makes
\* no HTTP call.
C19_ConfigurationChecked ==
    (Ended /\ (~Truthy(final_api_key) \/ ~Truthy(api_url))) =>
        /\ "error" \in DOMAIN ret
        /\ HttpCalls = 0

\* C20: whatever the arguments, the credential sources, the configuration
\* and the backend do, no call of a tool ends by an exception leaving the
\* tool function: every call that ends returns a result.
C20_NoExceptionEscapes == pc # "raised"

\* C21: a call of a tool that POSTs, made with a key and a URL, has made
\* exactly one POST when it returns and never more than one before; when the
\* POST raised (no answer, or an answer that is not 2xx) the call returns an
\* error result.
C21_ExactlyOnePost ==
    /\ obs.posts <= 1
    /\ (pc = "returned" /\ Truthy(final_api_key) /\ Truthy(api_url)) =>
          /\ obs.posts = 1
          /\ obs.failedAt # None => DOMAIN ret = {"error"}

\* C21 witness: a detailed plan whose single POST is answered by a 500
C21_Witness ==
    /\ pc = "returned"
    /\ tool = "calculate_detailed_spend_plan"
    /\ obs.posts = 1
    /\ obs.failedAt = Some(<<1, 0>>)
    /\ ret = RequestFailed("500 Server Error")

(***************************************************************************)
(* Properties of get_api_key                                               *)
(***************************************************************************)
\* the first of the optional strings that is neither None nor ""
RECURSIVE FirstNonEmpty(_)
FirstNonEmpty(sources) ==
    IF sources = << >> THEN None
    ELSE IF Truthy(Head(sources)) THEN Head(sources)
    ELSE FirstNonEmpty(Tail(sources))

\* what the forwarded headers offer: the Authorization value without its
\* Bearer prefix, or the X-API-Key value
Forwarded(ctx) == IF ctx = None THEN None ELSE HeaderKey(CtxHeaders(ctx[1]))

\* C22: the key that is resolved is the first non-empty value among the
\* explicit argument, the forwarded header and the environment variable, in
\* this order; when none of them has a value no key is resolved.
C22_FirstNonEmptyKey ==
    pc = "resolved" =>
        LET first == FirstNonEmpty(<<creds.user_arg, Forwarded(creds.ctx), creds.env_key>>)
        IN  IF first = None THEN ~Truthy(final_api_key) ELSE final_api_key = first

(***************************************************************************)
(* Further properties of construct_payload                                 *)
(***************************************************************************)
\* C23: person 2's retirement age in the request is the supplied spouse
\* retirement age whenever one is supplied, and the primary person's
\* retirement age when none is.
C23_SpouseRetirementAge ==
    Assembled =>
        payload.person2_ui.retirement_age =
            (IF args.spouse_retirement_age # None THEN args.spouse_retirement_age[1]
             ELSE args.retirement_age)

(***************************************************************************)
(* Further properties of the tools                                         *)
(***************************************************************************)
\* C24: when the POST of start_monte_carlo_simulation is answered with a
\* JSON object, the call returns status PENDING and the task_id of the
\* answer as job_id; when the POST fails (it raises, or the answer is no
\* JSON object) the call returns an error result without job_id.
C24_JobIdIsTaskId ==
    (pc = "returned" /\ tool = "start_monte_carlo_simulation" /\ obs.posts = 1) =>
        IF obs.answer # None /\ obs.answer[1].type = "dict"
        THEN /\ HasStatus(ret, "PENDING")
             /\ ret.job_id = Get(obs.answer[1].d, "task_id")
        ELSE DOMAIN ret = {"error"}

\* C24 witness: the backend issues identifier 2 and the call hands it back
C24_Witness ==
    /\ pc = "returned"
    /\ tool = "start_monte_carlo_simulation"
    /\ obs.answer = Some(Dict([task_id |-> 2]))
    /\ HasStatus(ret, "PENDING")
    /\ ret.job_id = Some(2)

\* C25: the request posted by start_monte_carlo_simulation depends on
\* enable_belt_tightening: a call that differs in this flag only would post
\* a different request.
C25_BeltTighteningSubmitted ==
    (tool = "start_monte_carlo_simulation" /\ obs.posts >= 1) =>
        payload # Request(tool, [args EXCEPT !.enable_belt_tightening = ~@])

(***************************************************************************)
(* Further properties of get_monte_carlo_results                           *)
(***************************************************************************)
\* C26: every result that get_monte_carlo_results returns has a status field
\* whose value is SUCCESS, PROCESSING or FAILURE.
C26_StatusInEveryResult ==
    Returned =>
        /\ "status" \in DOMAIN ret
        /\ ret.status \in {"SUCCESS", "PROCESSING", "FAILURE"}

\* C27: a fetched result body makes the invocation pause and poll on only
\* when it carries both the status "Orchestrator started" and a result_id;
\* any other body that was fetched, one with only one of the two included,
\* is returned as the SUCCESS result, and the identifier tracked is still
\* the one that was fetched.
C27_RedirectNeedsBoth ==
    /\ pc = "sleep1" =>
          /\ obs.last = "result"
          /\ obs.finalBody = None
          /\ obs.redirects >= 1
          /\ obs.redirectedTo = current_job_id
    /\ obs.finalBody # None =>
          /\ Returned
          /\ ret = Success(obs.finalBody[1])
          /\ current_job_id = obs.lastId

\* C27 witness: a body with the marker status and no result_id is the final result
C27_Witness ==
    /\ Returned
    /\ obs.finalBody = Some(Dict([status |-> "Orchestrator started"]))
    /\ ret = Success(Dict([status |-> "Orchestrator started"]))
    /\ obs.redirects = 0
    /\ current_job_id = Some(job_id)

\* C28: every followed redirect uses up one attempt like every still-running
\* status: at the start of attempt i the redirects and the still-running
\* answers so far add up to i, together they never exceed 15, and when they
\* reach 15 after at least one redirect the result is PROCESSING with the
\* identifier of the most recent redirect.
C28_RedirectsShareBudget ==
    /\ obs.redirects + obs.running <= MaxAttempts
    /\ pc \in {"status", "result"} => obs.redirects + obs.running = i
    /\ (Returned /\ obs.redirects >= 1 /\ obs.redirects + obs.running = MaxAttempts) =>
          /\ HasStatus(ret, "PROCESSING")
          /\ ret.job_id = obs.redirectedTo[1]

\* C28 witness: redirects and still-running answers mixed use up the budget
C28_Witness ==
    /\ Returned
    /\ obs.redirects >= 2
    /\ obs.running >= 2
    /\ obs.redirects + obs.running = MaxAttempts
    /\ ret = Processing(obs.redirectedTo[1])
    /\ obs.redirectedTo # Some(job_id)

\* C29: a result fetch follows directly (no sleep, no other HTTP call in
\* between) a status check of the same identifier that answered SUCCESS, so
\* the result is never fetched for an identifier whose latest status was
\* still-running or FAILURE.
C29_FetchOnlyAfterSuccess ==
    [][ obs'.resultFetches > obs.resultFetches =>
            /\ obs.last = "status"
            /\ obs.lastStatus # None
            /\ Reports(obs.lastStatus[1], "SUCCESS")
            /\ obs.lastId = current_job_id
            /\ obs'.lastId = obs.lastId ]_vars

\* C29 witness: the second fetch of an invocation, for the redirected
\* identifier, about to be made after its own SUCCESS status
C29_Witness ==
    /\ pc = "result"
    /\ obs.resultFetches = 1
    /\ obs.redirects = 1
    /\ obs.redirectedTo = current_job_id
    /\ current_job_id # Some(job_id)
    /\ obs.last = "status"
    /\ obs.lastId = current_job_id

====
